---------------------------- MODULE Spec2Model ----------------------------
(***************************************************************************)
(* The cattle-tree view of premobrendan/portfolio:                         *)
(*   side_projects/cattle-tree-app/src/app/cattle-tree/cattle-tree.ts      *)
(* A Cow tree is laid out by d3.hierarchy / d3.tree, drawn as one <line>   *)
(* per link and one <g> per node, and every <g> carries a d3.drag          *)
(* behaviour whose start / drag / end handlers tell a click (dialog.open)  *)
(* from a drag by the time between start and end.                          *)
(***************************************************************************)
EXTENDS Integers, Sequences, FiniteSets, TLC

(***************************************************************************)
(* Optional values (age?, gender?, notes?, d['dragStart'], ...) are        *)
(* sequences of length 0 (undefined) or 1.                                 *)
(***************************************************************************)
Undefined == <<>>

Some(v) == <<v>>

(* interface Cow: name, age?, gender?, notes?  (children? is kept in the   *)
(* arena below, by index).                                                 *)
Cow(name, age, gender, notes) ==
    [name |-> name, age |-> age, gender |-> gender, notes |-> notes]

Named(name) == Cow(name, Undefined, Undefined, Undefined)

(***************************************************************************)
(* Cow trees as an arena: the object at index i has the record cow[i] and  *)
(* the children children[i] (a sequence of indices; absent = empty).       *)
(***************************************************************************)
ObjTree(cows, kids) == [root |-> 1, cow |-> cows, children |-> kids]

(* private data: Cow = { name: 'Lilly', children: [ Bella, Daisy[MooMoo,   *)
(* Bessie], Buttercup ] }                                                  *)
Lilly ==
    ObjTree(<<Named("Lilly"), Named("Bella"), Named("Daisy"),
              Named("Buttercup"), Named("MooMoo"), Named("Bessie")>>,
            <<<<2, 3, 4>>, <<>>, <<5, 6>>, <<>>, <<>>, <<>>>>)

(* Other arguments createTree(data: Cow) accepts: a lone cow with every    *)
(* optional field set (the shape of the module-level `cows` sample), a     *)
(* chain, a tree whose two subtrees push each other apart, and a tree      *)
(* with two cows of the same name.                                         *)
Lone ==
    ObjTree(<<Cow("Lilly", Some(11), Some("female"), Some("matriarch"))>>,
            <<<<>>>>)

Chain ==
    ObjTree(<<Named("Lilly"), Cow("Daisy", Some(7), Some("female"), Undefined),
              Cow("Bessie", Some(2), Undefined, Some("calf"))>>,
            <<<<2>>, <<3>>, <<>>>>)

Twins ==
    ObjTree(<<Named("Lilly"), Cow("Daisy", Some(7), Some("female"), Undefined),
              Cow("Daisy", Some(5), Some("female"), Some("second Daisy")),
              Named("MooMoo"), Cow("Angus", Some(1), Some("male"), Undefined)>>,
            <<<<2, 3>>, <<4>>, <<5>>, <<>>, <<>>>>)

Trees == {Lilly, Lone, Chain, Twins}

(* What the type Cow does not rule out at run time: no object at all       *)
(* (null), and an object that is its own grandchild.                       *)
NullRef == 0

NoCow == [root |-> NullRef, cow |-> <<>>, children |-> <<>>]

Loop == ObjTree(<<Named("A"), Named("A")>>, <<<<2>>, <<1>>>>)

Inputs == Trees \cup {NoCow, Loop}

(***************************************************************************)
(* d3.hierarchy(data): one node per object met, walking children without   *)
(* any visited set; descendants() lists them breadth-first.  A node is its *)
(* index in that list.                                                     *)
(***************************************************************************)
HNode(obj, parent, depth) == [data |-> obj, parent |-> parent, depth |-> depth]

(* The walk is followed for this many nodes; one that makes more has not   *)
(* ended, and on the inputs above never does.                              *)
MaxWalk == 6

Diverges(h) == Len(h) > MaxWalk

RECURSIVE Bfs(_, _, _)
Bfs(dat, seq, i) ==
    IF i > Len(seq) \/ Diverges(seq) THEN seq
    ELSE LET kids == dat.children[seq[i].data]
             new  == [k \in 1..Len(kids) |-> HNode(kids[k], i, seq[i].depth + 1)]
         IN  Bfs(dat, seq \o new, i + 1)

hierarchy(dat) == Bfs(dat, <<HNode(dat.root, 0, 0)>>, 1)

(* node.children, in order *)
RECURSIVE KidsFrom(_, _, _)
KidsFrom(h, v, j) ==
    IF j > Len(h) THEN <<>>
    ELSE (IF h[j].parent = v THEN <<j>> ELSE <<>>) \o KidsFrom(h, v, j + 1)

Kids(h, v) == KidsFrom(h, v, 1)

(* A faulty variant of links: only the links that end in a leaf *)
links_Leaves(h) ==
    SelectSeq([j \in 1..(Len(h) - 1) |-> [source |-> h[j + 1].parent, target |-> j + 1]],
              LAMBDA l : Kids(h, l.target) = <<>>)

(* root.links(): one {source: parent, target: node} per node but the root *)
links(h) == [j \in 1..(Len(h) - 1) |-> [source |-> h[j + 1].parent, target |-> j + 1]]

(* root.descendants() *)
descendants(h) == [j \in 1..Len(h) |-> j]

RECURSIVE Flatten(_)
Flatten(ss) == IF ss = <<>> THEN <<>> ELSE Head(ss) \o Flatten(Tail(ss))

(* node.eachBefore: pre-order *)
RECURSIVE PreOrder(_, _)
PreOrder(h, v) ==
    LET ks == Kids(h, v)
    IN  <<v>> \o Flatten([k \in 1..Len(ks) |-> PreOrder(h, ks[k])])

(***************************************************************************)
(* d3.tree(): the tidy-tree placement.  Positions are kept in sixteenths   *)
(* of d3's unit so that the midpoints stay whole numbers.                  *)
(***************************************************************************)
Unit == 16

Max(S) == CHOOSE m \in S : \A e \in S : e <= m

Min(S) == CHOOSE m \in S : \A e \in S : m <= e

(* default separation(a, b): a.parent === b.parent ? 1 : 2 *)
separation(h, a, b) == IF h[a].parent = h[b].parent THEN Unit ELSE 2 * Unit

(* The nodes of a placed subtree (a function node -> offset) at a depth *)
AtDepth(h, rel, d) == {n \in DOMAIN rel : h[n].depth = d}

(* F(v), with v worked out once *)
With(v, F(_)) == CHOOSE r \in {F(x) : x \in {v}} : TRUE

(* How far the subtree `sub`, put at `at`, must move right to clear the    *)
(* subtrees `placed` (already positioned) at every depth they share.       *)
Push(h, placed, sub, at) ==
    LET ds == {h[n].depth : n \in DOMAIN placed} \cap {h[n].depth : n \in DOMAIN sub}
        need(d) ==
            LET r == CHOOSE a \in AtDepth(h, placed, d) :
                        \A e \in AtDepth(h, placed, d) : placed[e] <= placed[a]
                l == CHOOSE b \in AtDepth(h, sub, d) :
                        \A e \in AtDepth(h, sub, d) : sub[b] <= sub[e]
            IN  placed[r] + separation(h, r, l) - (at + sub[l])
    IN  Max({0} \cup {need(d) : d \in ds})

RECURSIVE Place(_, _)
RECURSIVE PlaceKids(_, _, _, _)
(* the children ks[j..] of a node set to the right of `placed` *)
PlaceKids(h, ks, j, placed) ==
    IF j > Len(ks) THEN placed
    ELSE With(Place(h, ks[j]), LAMBDA sub :
           With(IF j = 1 THEN 0
                ELSE placed[ks[j - 1]] + Push(h, placed, sub, placed[ks[j - 1]]),
                LAMBDA to :
                  With(placed @@ [n \in DOMAIN sub |-> to + sub[n]],
                       LAMBDA all : PlaceKids(h, ks, j + 1, all))))

(* firstWalk: the subtree of v, every node's offset from v; a parent sits  *)
(* over the midpoint of its first and last child.                          *)
Place(h, v) ==
    With(Kids(h, v), LAMBDA ks :
      IF ks = <<>> THEN (v :> 0)
      ELSE With(PlaceKids(h, ks, 1, <<>>), LAMBDA placed :
             With((placed[ks[1]] + placed[ks[Len(ks)]]) \div 2, LAMBDA mid :
               (v :> 0) @@ [n \in DOMAIN placed |-> placed[n] - mid])))

width == 800

height == 600

(* The first node, in the order `pre`, that is leftmost (dir = 1) or       *)
(* rightmost (dir = -1) in X                                               *)
Extreme(X, pre, dir) ==
    pre[Min({i \in 1..Len(pre) : \A e \in DOMAIN X : dir * X[pre[i]] <= dir * X[e]})]

(* A faulty variant of DepthY: a fixed step per level, whatever the depth  *)
(* of the tree                                                             *)
DepthY_PerLevel(depth, bottom) == depth * 100

(* node.y = node.depth * ky, with ky = dy / (bottom.depth || 1) *)
DepthY(depth, bottom) ==
    (depth * (height - 100)) \div (IF bottom = 0 THEN 1 ELSE bottom)

(* treeLayout(root) with size([width - 100, height - 100]): the point      *)
(* <<x, y>> of every node, in whole pixels.                                *)
treeLayout(h) ==
    With(Place(h, 1), LAMBDA X :
      With(PreOrder(h, 1), LAMBDA pre :
        With(<<Extreme(X, pre, 1), Extreme(X, pre, -1),
               Max({h[n].depth : n \in 1..Len(h)})>>, LAMBDA lrb :
          LET left   == lrb[1]
              right  == lrb[2]
              bottom == lrb[3]
              s      == IF left = right THEN Unit
                        ELSE separation(h, left, right) \div 2
              tx     == s - X[left]
              dx     == width - 100
              kden   == X[right] + s + tx
          IN  [n \in 1..Len(h) |->
                 <<((X[n] + tx) * dx) \div kden, DepthY(h[n].depth, bottom)>>])))

(***************************************************************************)
(* State.                                                                  *)
(*   data      the Cow tree handed to createTree                           *)
(*   root      the d3 hierarchy, breadth-first: every node with its layout *)
(*             x, y and the d['dragging'], d['dragStart'] the handlers set *)
(*             (<<>> until ngOnInit has run)                               *)
(*   svg       what the container holds: the <line> and <g> elements       *)
(*   dialog    the dialog.open calls made so far                           *)
(*   now       Date.now()                                                  *)
(*   gestures  d3-drag's active gesture: its subject, the pointer's        *)
(*             displacement since mousedown, and (for the properties) the  *)
(*             time of the mousedown and where the node stood then         *)
(*   event     the last input event and whether d3-drag passed it to a     *)
(*             handler                                                     *)
(*   started   the number of gestures begun                                *)
(*   override  history: for every node, where the last gesture on it that  *)
(*             was not a click left it; the handlers keep no such record   *)
(*   status    how the last createTree call went: not called yet           *)
(*             ("constructed"), returned ("rendered"), threw ("TypeError") *)
(*             or never returns ("looping")                                *)
(*   calls     the number of createTree calls                              *)
(*   ended     history: the number of gestures that ended with a mouseup   *)
(***************************************************************************)
VARIABLES data, root, svg, dialog, now, gestures, event, started, override,
          status, calls, ended

vars == <<data, root, svg, dialog, now, gestures, event, started, override,
          status, calls, ended>>

(* Bounds of the exploration *)
MaxGestures == 2

MaxTicks == 2

MaxCalls == 3

(* const wasClick = Date.now() - d['dragStart'] < 200 *)
CLICK_THRESHOLD_MS == 200

(* The clock moves in steps of half the threshold, so a gesture can last   *)
(* exactly the threshold as well as less and more.                         *)
TickMs == CLICK_THRESHOLD_MS \div 2

(* Displacements of the pointer from where it went down *)
Moves == {<<50, 0>>, <<-30, 40>>}

Nodes == 1..Len(root)

(* The object a reference points at: the Cow with its identity *)
Deref(obj) ==
    [ref |-> obj, name |-> data.cow[obj].name, age |-> data.cow[obj].age,
     gender |-> data.cow[obj].gender, notes |-> data.cow[obj].notes,
     children |-> data.children[obj]]

(* The <g class="node"> bound to node n, and where it is drawn *)
ElemIn(s, n) == CHOOSE i \in 1..Len(s.nodes) : s.nodes[i].datum = n

TransformIn(s, n) == s.nodes[ElemIn(s, n)].transform

ElemOf(n) == ElemIn(svg, n)

Transform(n) == TransformIn(svg, n)

Init ==
    /\ data \in Inputs
    /\ root = <<>>
    /\ svg = [count |-> 0, lines |-> <<>>, nodes |-> <<>>]
    /\ dialog = <<>>
    /\ now = 0
    /\ gestures = Undefined
    /\ event = [type |-> "none", dispatched |-> FALSE]
    /\ started = 0
    /\ override = <<>>
    /\ status = "constructed"
    /\ calls = 0
    /\ ended = 0

(***************************************************************************)
(* createTree(data)                                                        *)
(***************************************************************************)
(* svg.selectAll('line.link').data(root.links()).enter().append('line') *)
DrawLinks(h, pos) ==
    LET ls == links(h)
    IN  [j \in 1..Len(ls) |->
            [link |-> ls[j],
             x1 |-> pos[ls[j].source][1], y1 |-> pos[ls[j].source][2],
             x2 |-> pos[ls[j].target][1], y2 |-> pos[ls[j].target][2]]]

(* svg.selectAll('g.node').data(root.descendants()).enter().append('g')    *)
(* with its transform, circle and text                                     *)
DrawNodes(dat, h, pos) ==
    LET ds == descendants(h)
    IN  [j \in 1..Len(ds) |->
            [datum |-> ds[j], transform |-> pos[ds[j]],
             text |-> dat.cow[h[ds[j]].data].name]]

(* A faulty variant of removeAll: what was drawn before stays *)
removeAll_Nothing(s) == s

(* d3.select(element).selectAll('*').remove() *)
removeAll(s) == [count |-> 0, lines |-> <<>>, nodes |-> <<>>]

(* d3.select(element).append('svg') ... .append('g'): one more, empty <svg> *)
appendSvg(s) == [s EXCEPT !.count = s.count + 1]

(* The container is emptied and given a new <svg> before the data is       *)
(* looked at.  d3.hierarchy(null) reads null.children and throws a         *)
(* TypeError; on an object that is its own descendant its walk makes nodes *)
(* without end and the call never returns.                                 *)
createTree(dat) ==
    \E box \in {appendSvg(removeAll(svg))} :
      IF dat.root = NullRef
      THEN /\ status' = "TypeError"
           /\ root' = <<>>
           /\ svg' = box
           /\ override' = <<>>
      ELSE \E h \in {hierarchy(dat)} :
        IF Diverges(h)
        THEN /\ status' = "looping"
             /\ root' = <<>>
             /\ svg' = box
             /\ override' = <<>>
        ELSE \E pos \in {treeLayout(h)} :
             /\ status' = "rendered"
             /\ root' = [n \in 1..Len(h) |->
                           [data |-> h[n].data, parent |-> h[n].parent,
                            depth |-> h[n].depth,
                            x |-> pos[n][1], y |-> pos[n][2],
                            dragging |-> Undefined, dragStart |-> Undefined]]
             /\ svg' = [box EXCEPT !.lines = box.lines \o DrawLinks(h, pos),
                                   !.nodes = box.nodes \o DrawNodes(dat, h, pos)]
             /\ override' = [n \in 1..Len(h) |-> Undefined]

ngOnInit ==
    /\ status = "constructed"
    /\ createTree(data)
    /\ calls' = calls + 1
    /\ UNCHANGED <<data, dialog, now, gestures, event, started, ended>>

(* createTree called again, with the same or another tree, between two     *)
(* gestures (the view itself calls it from ngOnInit only).                 *)
redraw(dat) ==
    /\ status \in {"rendered", "TypeError"}
    /\ gestures = Undefined
    /\ calls < MaxCalls
    /\ data' = dat
    /\ createTree(dat)
    /\ calls' = calls + 1
    /\ UNCHANGED <<dialog, now, gestures, event, started, ended>>

(***************************************************************************)
(* The drag handlers                                                       *)
(***************************************************************************)
(* d3.select(this).raise(): the element becomes its parent's last child *)
raise(n) ==
    LET i == ElemOf(n)
    IN  [svg EXCEPT !.nodes =
            [j \in 1..Len(svg.nodes) |->
                IF j < i THEN svg.nodes[j]
                ELSE IF j < Len(svg.nodes) THEN svg.nodes[j + 1]
                ELSE svg.nodes[i]]]

(* .on('start', function (event, d) {...}) *)
start(d) ==
    /\ svg' = raise(d)
    /\ root' = [root EXCEPT ![d].dragging = Some(TRUE), ![d].dragStart = Some(now)]

(* A faulty variant of drag: every node follows the pointer *)
drag_All(d, ex, ey) ==
    /\ svg' = [svg EXCEPT !.nodes = [j \in 1..Len(svg.nodes) |->
                   [svg.nodes[j] EXCEPT !.transform = <<ex, ey>>]]]
    /\ UNCHANGED root

(* A faulty variant of drag: the pointer's position written to the datum  *)
(* as well (d.x = event.x; d.y = event.y)                                  *)
drag_WritesDatum(d, ex, ey) ==
    /\ svg' = [svg EXCEPT !.nodes[ElemOf(d)].transform = <<ex, ey>>]
    /\ root' = [root EXCEPT ![d].x = ex, ![d].y = ey]

(* .on('drag', function (event, d) {...}); ex, ey are event.x, event.y *)
drag(d, ex, ey) ==
    /\ svg' = [svg EXCEPT !.nodes[ElemOf(d)].transform = <<ex, ey>>]
    /\ UNCHANGED root

(* A faulty variant of wasClick: <= for < *)
wasClick_Inclusive(d) ==
    /\ root[d].dragStart # Undefined
    /\ now - root[d].dragStart[1] <= CLICK_THRESHOLD_MS

(* Date.now() - d['dragStart'] < 200; with dragStart undefined the         *)
(* difference is NaN and the comparison false.                             *)
wasClick(d) ==
    /\ root[d].dragStart # Undefined
    /\ now - root[d].dragStart[1] < CLICK_THRESHOLD_MS

(* A faulty variant of cowData: the tree's own data, not the node's *)
cowData_Root(d) == Deref(data.root)

(* const cowData = d.data *)
cowData(d) == Deref(root[d].data)

(* A faulty variant of end: a click opens the dialog twice *)
end_Twice(d) ==
    /\ root' = [root EXCEPT ![d].dragging = Some(FALSE)]
    /\ IF wasClick(d)
       THEN dialog' = dialog \o <<[data |-> cowData(d)], [data |-> cowData(d)]>>
       ELSE UNCHANGED dialog
    /\ UNCHANGED svg

(* .on('end', (event, d) => {...}) *)
end(d) ==
    /\ root' = [root EXCEPT ![d].dragging = Some(FALSE)]
    /\ IF wasClick(d)
       THEN dialog' = Append(dialog, [data |-> cowData(d)])
       ELSE UNCHANGED dialog
    /\ UNCHANGED svg

(***************************************************************************)
(* d3.drag(): which input events reach the handlers.  The subject of a     *)
(* gesture is the datum d, so event.x, event.y are d.x, d.y plus the       *)
(* pointer's displacement since the mousedown.                             *)
(***************************************************************************)
(* mousedown on the <g> of node n.  A gesture whose mouseup was lost is    *)
(* replaced: d3-drag keeps one mouse gesture.                              *)
mousedowned(n) ==
    /\ started < MaxGestures
    /\ gestures' = Some([subject |-> n, p |-> <<0, 0>>, moved |-> FALSE,
                         at |-> now, from |-> Transform(n)])
    /\ start(n)
    /\ event' = [type |-> "mousedown", dispatched |-> TRUE]
    /\ started' = started + 1
    /\ UNCHANGED <<data, dialog, now, override, status, calls, ended>>

(* mousemove, the pointer now q away from where it went down: listened   *)
(* for only while a gesture is active                                      *)
mousemoved(q) ==
    /\ gestures # Undefined
    /\ LET g == gestures[1]
           d == g.subject
       IN  /\ gestures' = Some([g EXCEPT !.p = q, !.moved = TRUE])
           /\ drag(d, root[d].x + q[1], root[d].y + q[2])
    /\ event' = [type |-> "mousemove", dispatched |-> TRUE]
    /\ UNCHANGED <<data, dialog, now, started, override, status, calls, ended>>

(* Where the gesture's pointer left the node *)
FinalPosition(g) ==
    IF g.moved THEN <<root[g.subject].x + g.p[1], root[g.subject].y + g.p[2]>>
    ELSE g.from

(* A faulty variant of mouseupped: the end handler bound to every mouseup  *)
(* over a node, gesture or none                                            *)
mouseupped_Unguarded ==
    \E n \in Nodes :
      LET d == IF gestures = Undefined THEN n ELSE gestures[1].subject
      IN  /\ gestures' = Undefined
          /\ end(d)
          /\ event' = [type |-> "mouseup", dispatched |-> TRUE]
          /\ override' = IF gestures = Undefined
                            \/ now - gestures[1].at < CLICK_THRESHOLD_MS
                         THEN override
                         ELSE [override EXCEPT ![d] = Some(FinalPosition(gestures[1]))]
          /\ ended' = ended + 1
          /\ UNCHANGED <<data, now, started, status, calls>>

(* mouseup: listened for only while a gesture is active, and then it ends  *)
(* that gesture, whatever the pointer is over.                             *)
mouseupped ==
    IF gestures = Undefined
    THEN /\ event' = [type |-> "mouseup", dispatched |-> FALSE]
         /\ UNCHANGED <<data, root, svg, dialog, now, gestures, started, override,
                       status, calls, ended>>
    ELSE LET g == gestures[1]
         IN  /\ gestures' = Undefined
             /\ end(g.subject)
             /\ event' = [type |-> "mouseup", dispatched |-> TRUE]
             /\ override' = IF now - g.at < CLICK_THRESHOLD_MS THEN override
                            ELSE [override EXCEPT ![g.subject] = Some(FinalPosition(g))]
             /\ ended' = ended + 1
             /\ UNCHANGED <<data, now, started, status, calls>>

(* Time passes between events *)
Tick ==
    /\ now < MaxTicks * TickMs
    /\ now' = now + TickMs
    /\ UNCHANGED <<data, root, svg, dialog, gestures, event, started, override,
                 status, calls, ended>>

PointerDown == \E n \in Nodes : mousedowned(n)

PointerMove == \E q \in Moves : mousemoved(q)

PointerUp == root # <<>> /\ mouseupped

Next == ngOnInit \/ PointerDown \/ PointerMove \/ PointerUp \/ Tick

Spec == Init /\ [][Next]_vars

(* The view with createTree called more than once *)
Fork ==
    ObjTree(<<Named("Lilly"), Named("Daisy"), Named("Bessie")>>,
            <<<<2, 3>>, <<>>, <<>>>>)

Redrawn == {Lone, Chain, Fork, NoCow}

Redraw == \E dat \in Redrawn : redraw(dat)

NextRedraw == Next \/ Redraw

InitRedraw == Init /\ data \in Redrawn

SpecRedraw == InitRedraw /\ [][NextRedraw]_vars

(***************************************************************************)
(* Properties                                                              *)
(***************************************************************************)
(* The gesture that a step ends, and how long it lasted *)
Ends == gestures # Undefined /\ gestures' = Undefined

Elapsed == now - gestures[1].at

(* The layout point of a node *)
Point(n) == <<root[n].x, root[n].y>>

Idle == root # <<>> /\ gestures = Undefined

(* C1: at the pointer-up of a tracked gesture a Selection is emitted (one  *)
(* more dialog.open) if and only if less than 200 ms have passed since     *)
(* that gesture's pointer-down, whether or not the pointer moved.          *)
C1_SelectionIffShort ==
    [][Ends => IF Elapsed < CLICK_THRESHOLD_MS
               THEN Len(dialog') = Len(dialog) + 1
               ELSE dialog' = dialog]_vars

(* C1 happens: a gesture during which the node was moved opened the        *)
(* dialog, and a press of 200 ms or more without movement on another node  *)
(* opened none.                                                            *)
C1_Witness ==
    /\ Idle
    /\ \E a, b \in Nodes :
         /\ a # b
         /\ Transform(a) # Point(a)
         /\ Len(dialog) = 1
         /\ dialog[1].data.ref = root[a].data
         /\ override[a] = Undefined
         /\ override[b] = Some(Point(b))

(* C2: after a gesture classified as a click the node is drawn where it    *)
(* stood before the gesture, also when pointer-moves moved it meanwhile.   *)
C2_ClickSnapsBack ==
    [][(Ends /\ Elapsed < CLICK_THRESHOLD_MS)
         => TransformIn(svg', gestures[1].subject) = gestures[1].from]_vars

(* C3: the pointer-up of a gesture of 200 ms or more leaves the node at    *)
(* the final pointer position as its manual position (where it stood, if   *)
(* the pointer never moved); the pointer-up of a click commits no manual   *)
(* position: the node keeps the position it had before the gesture.        *)
C3_DragCommitsClickDoesNot ==
    [][Ends => IF Elapsed >= CLICK_THRESHOLD_MS
               THEN TransformIn(svg', gestures[1].subject) = FinalPosition(gestures[1])
               ELSE TransformIn(svg', gestures[1].subject) = gestures[1].from]_vars

(* C4: whenever no gesture is in progress, every node with a manual        *)
(* override is drawn at exactly its override position.                     *)
C4_OverrideRendered ==
    Idle => \A n \in Nodes : override[n] # Undefined => Transform(n) = override[n][1]

(* C5: once a drag has repositioned a node, every edge at that node ends   *)
(* at the position the node is drawn at.                                   *)
C5_EdgesFollowNodes ==
    Idle => \A n \in Nodes : \A j \in 1..Len(svg.lines) :
              LET l == svg.lines[j]
              IN  override[n] # Undefined =>
                    /\ l.link.source = n => <<l.x1, l.y1>> = Transform(n)
                    /\ l.link.target = n => <<l.x2, l.y2>> = Transform(n)

(* C6: a pointer-down that arrives while a gesture is tracked is ignored:  *)
(* the tracked gesture (target, start time) and every node's dragging and  *)
(* dragStart stay as they are.                                             *)
C6_DownWhileTrackingIgnored ==
    [][(gestures # Undefined /\ started' # started)
         => (gestures' = gestures /\ root' = root)]_vars

(* C7: a pointer-up while no gesture is tracked changes nothing: no        *)
(* Selection, no override, no node touched, still no gesture.              *)
C7_StrayUpIsNoOp ==
    [][(Idle /\ event'.type = "mouseup" /\ now' = now)
         => (gestures' = Undefined /\ UNCHANGED <<dialog, root, svg, override>>)]_vars

(* C7 happens: a pointer-up nothing was tracking, on a view where a click  *)
(* ended less than 200 ms after its pointer-down and no more than that ago *)
(* (its dragStart is still within the threshold), and still one Selection. *)
C7_Witness ==
    /\ Idle
    /\ event = [type |-> "mouseup", dispatched |-> FALSE]
    /\ Len(dialog) = 1
    /\ \E n \in Nodes :
         /\ dialog[1].data.ref = root[n].data
         /\ root[n].dragging = Some(FALSE)
         /\ now - root[n].dragStart[1] < CLICK_THRESHOLD_MS

(* A step other than a pointer-up that ends the tracked gesture *)
ResetWithoutPointerUp ==
    /\ ngOnInit \/ PointerDown \/ PointerMove \/ Tick
    /\ gestures' = Undefined

(* C8: from every state with a tracked gesture a reset to Idle that needs  *)
(* no pointer-up is available.                                             *)
C8_ResetAvailable == gestures # Undefined => ENABLED ResetWithoutPointerUp

(* C9: a Selection carries the whole Cow (name, age, gender, notes) of the *)
(* node the gesture's pointer-down was on, that very object.               *)
C9_SelectionCarriesTarget ==
    [][dialog' # dialog =>
         /\ gestures # Undefined
         /\ Len(dialog') = Len(dialog) + 1
         /\ LET sent == dialog'[Len(dialog')].data
                obj  == root[gestures[1].subject].data
            IN  /\ sent.ref = obj
                /\ sent.name = data.cow[obj].name
                /\ sent.age = data.cow[obj].age
                /\ sent.gender = data.cow[obj].gender
                /\ sent.notes = data.cow[obj].notes]_vars

(* C9 happens: a Selection of a cow that is not the root and has an age    *)
(* and a gender.                                                           *)
C9_Witness ==
    \E i \in 1..Len(dialog) :
      /\ dialog[i].data.ref # data.root
      /\ dialog[i].data.age # Undefined
      /\ dialog[i].data.gender # Undefined

(* C10: a render pass of a valid tree draws exactly one node per cow and   *)
(* one edge less than nodes.                                               *)
C10_OneNodePerCowEdgesOneLess ==
    root # <<>> =>
      /\ \A obj \in 1..Len(data.cow) :
           Cardinality({i \in 1..Len(svg.nodes) : root[svg.nodes[i].datum].data = obj}) = 1
      /\ Len(svg.nodes) = Len(data.cow)
      /\ Len(svg.lines) = Len(svg.nodes) - 1

(* C10 happens: the six cows of the view's own data, five edges *)
C10_Witness ==
    /\ data = Lilly
    /\ Len(svg.nodes) = 6
    /\ Len(svg.lines) = 5

(* The drawing area is the <svg> less the margin of 50 on every side *)
Centre == <<(width - 100) \div 2, (height - 100) \div 2>>

(* C11: a tree of the root alone is drawn as one node and no edge, and the *)
(* node is at the centre of the drawing area on both axes.                 *)
C11_LoneNodeCentred ==
    (status = "rendered" /\ Len(data.cow) = 1)
        => /\ Len(svg.nodes) = 1
           /\ Len(svg.lines) = 0
           /\ Point(1) = Centre

(* C12: loading a tree in which a cow is its own descendant ends, with a   *)
(* MalformedTreeError, and draws nothing.                                  *)
C12_CycleRejected ==
    (data = Loop /\ calls > 0)
        => /\ status = "MalformedTreeError"
           /\ svg.nodes = <<>>
           /\ svg.lines = <<>>

(* C13: loading no root at all fails with an EmptyTreeError and draws no   *)
(* node and no edge.                                                       *)
C13_NullRejected ==
    (data.root = NullRef /\ calls > 0)
        => /\ status = "EmptyTreeError"
           /\ svg.nodes = <<>>
           /\ svg.lines = <<>>

(* The coordinates the layout gave the nodes *)
LayoutOf(r) == [n \in 1..Len(r) |-> <<r[n].x, r[n].y>>]

(* No node has been pressed since the diagram was drawn *)
Untouched == \A n \in Nodes : root[n].dragging = Undefined

(* A createTree call on the tree that is already drawn *)
SamePass == calls' = calls + 1 /\ data' = data /\ status = "rendered"

(* C14: a layout pass on the tree already laid out gives every node and    *)
(* every edge the coordinates the pass before gave them, also when nodes   *)
(* have been dragged before; and what it draws is what the pass before     *)
(* drew.                                                                   *)
C14_RelayoutIdempotent ==
    [][SamePass
         => /\ status' = "rendered"
            /\ LayoutOf(root') = LayoutOf(root)
            /\ svg'.lines = svg.lines
            /\ \A n \in Nodes : TransformIn(svg', n) = Point(n)
            /\ Untouched => (svg' = svg /\ root' = root)]_vars

C14_Witness ==
    /\ calls = MaxCalls
    /\ status = "rendered"
    /\ Len(root) > 1
    /\ Untouched
    /\ ended > 0
    /\ dialog = <<>>

(* The depth of the deepest node *)
MaxDepth == Max({root[n].depth : n \in Nodes})

(* The drawing height: the second component of size([width-100, height-100]) *)
DrawHeight == height - 100

(* y is the node's share depth / MaxDepth of the drawing height *)
YByDepth == \A n \in Nodes : root[n].y * MaxDepth = root[n].depth * DrawHeight

RootAtTop == \A n \in Nodes : root[n].depth = 0 => root[n].y = 0

DeepestAtBottom == \A n \in Nodes : root[n].depth = MaxDepth => root[n].y = DrawHeight

ParentAboveChild == \A n \in Nodes : root[n].parent # 0 => root[root[n].parent].y < root[n].y

(* C15 as stated: after a layout pass every node's y is depth / maxDepth   *)
(* of the drawing height: the root at 0, the deepest nodes at the full     *)
(* height, every parent strictly before its children.                      *)
C15_DepthAxis ==
    status = "rendered"
        => YByDepth /\ RootAtTop /\ DeepestAtBottom /\ ParentAboveChild

(* C15, amended: so it is in a tree that has an edge; in a tree of the     *)
(* root alone depth / maxDepth is 0 / 0 and the deepest node, the root, is *)
(* not at the full height.                                                 *)
C15_DepthAxisOfEdgedTree ==
    (status = "rendered" /\ MaxDepth > 0)
        => YByDepth /\ RootAtTop /\ DeepestAtBottom /\ ParentAboveChild

C15_Witness ==
    /\ status = "rendered"
    /\ MaxDepth = 2
    /\ \E n \in Nodes : root[n].depth = 1 /\ 2 * root[n].y = DrawHeight

(* C16: the dragging flag is false from the pointer-down to the first      *)
(* pointer-move of a gesture, and true only once a pointer-move has been   *)
(* seen; a pointer-down followed at once by a pointer-up never has it true. *)
C16_DraggingOnlyAfterMove ==
    (gestures # Undefined /\ ~gestures[1].moved)
        => root[gestures[1].subject].dragging # Some(TRUE)

(* C17: the dialog is opened only by a step that ends a gesture with a     *)
(* pointer-up, once for that gesture; no pointer-down and no pointer-move  *)
(* opens it, and the dialogs opened are never more than the gestures       *)
(* ended.                                                                  *)
C17_SelectionOnlyOnPointerUp ==
    [][/\ dialog' # dialog
            => /\ Ends
               /\ event'.type = "mouseup"
               /\ ended' = ended + 1
               /\ Len(dialog') = Len(dialog) + 1
               /\ SubSeq(dialog', 1, Len(dialog)) = dialog
       /\ Len(dialog') <= ended']_vars

C17_Witness ==
    /\ gestures = Undefined
    /\ started = 2
    /\ ended = 2
    /\ Len(dialog) = 1

(* A step of a gesture *)
GestureStep == PointerDown \/ PointerMove \/ PointerUp

(* The cow every node stands for *)
CowOf(r) == [n \in 1..Len(r) |-> r[n].data]

(* C18: no step of a gesture changes the cows, the layout x, y of a node   *)
(* or the endpoints of an edge; a pointer-move changes nothing but the     *)
(* transform of the node being dragged, and through all of a gesture the   *)
(* other nodes stay drawn where they were.                                 *)
C18_GestureFrame ==
    [][GestureStep
         => /\ data' = data
            /\ CowOf(root') = CowOf(root)
            /\ LayoutOf(root') = LayoutOf(root)
            /\ svg'.lines = svg.lines
            /\ \A n \in Nodes :
                 (gestures' = Undefined \/ n # gestures'[1].subject)
                     => TransformIn(svg', n) = Transform(n)
            /\ PointerMove
                 => /\ root' = root
                    /\ dialog' = dialog
                    /\ LET d == gestures[1].subject
                       IN  svg' = [svg EXCEPT !.nodes[ElemOf(d)].transform =
                                                   TransformIn(svg', d)]]_vars

C18_Witness ==
    /\ gestures # Undefined
    /\ gestures[1].moved
    /\ Len(root) > 1
    /\ Len(svg.lines) > 0
    /\ \A n \in Nodes :
         (Transform(n) = Point(n)) <=> (n # gestures[1].subject)

(* C19: after any number of createTree calls the container holds one       *)
(* diagram, that of the tree of the last call: what the calls before drew  *)
(* is gone, and the nodes and edges drawn are as many as that tree's.      *)
C19_OneDiagram ==
    calls > 0
        => /\ svg.count = 1
           /\ IF status = "rendered"
              THEN /\ Len(svg.nodes) = Len(data.cow)
                   /\ Len(svg.lines) = Len(data.cow) - 1
              ELSE svg.nodes = <<>> /\ svg.lines = <<>>

C19_Witness ==
    /\ calls = MaxCalls
    /\ data = Lone
    /\ status = "rendered"
    /\ Len(svg.nodes) = 1
    /\ \E i \in 1..Len(dialog) : dialog[i].data.name = "Daisy"

=============================================================================
